---------------------------- MODULE Spec2Model ----------------------------
(***************************************************************************)
(* python-mtga-helper: the log tailer / event demuxer                      *)
(* (mtga_helper/mtga_log.py: follow, follow_player_log) and the color-pair *)
(* partition (mtga_helper/__main__.py: split_pool_by_color_pair with       *)
(* are_card_colors_in_pair of follow_log.py).                               *)
(*                                                                         *)
(* Text is modelled at the level of lexical tokens: a line of the log is a *)
(* sequence of tokens, a token is a string.  The tests the code makes on a *)
(* line (substring, prefix, count, split, regular expression, JSON         *)
(* decoding) are computed on the token sequence.                           *)
(***************************************************************************)
EXTENDS Integers, Sequences, FiniteSets, TLC

VARIABLES
    files,            \* inode -> the lines written to that file so far
    path,             \* inode of the file at the log path, 0 when absent
    fIno,             \* follow: inode of the file object `file`
    fPos,             \* follow: number of lines `file` has read
    fObj,             \* follow: which file object `file` is (0: player_log_file)
    openObjs,         \* the file objects that are open
    current_inode,    \* follow: current_inode
    inode,            \* follow: inode (result of os.stat)
    pc,               \* where the single thread stands
    line,             \* the line last yielded by follow (stripped)
    yielded,          \* whether follow has yielded a line yet
    next_line_event,  \* follow_player_log: next_line_event
    prev_event,       \* next_line_event as it was before the last loop body
    calls,            \* the callbacks invoked by the last loop body
    logs,             \* the logger records emitted by the last loop body
    flogs,            \* the logger record follow emits before it reopens
    status,           \* "running" | "ended"
    error,            \* the exception that ended follow_player_log, "" when none
    pool,             \* split_pool_by_color_pair: pool (arena ids)
    include_lands,    \* split_pool_by_color_pair: include_lands
    buckets,          \* split_pool_by_color_pair: pool_rankings_by_color_pair
    ppc,              \* partition: "input" | "split"
    provider_records, \* the records of the statistics feed as pull_17lands returned them
    eoe_rankings,     \* get_graded_rankings: eoe_rankings, the same dict objects now
    rankings_by_arena_id, \* get_graded_rankings: mtga_id -> index of the dict object
    normal_distribution,  \* get_graded_rankings: normal_distribution
    land_count,       \* args.land_count
    scores_by_color_pair, \* print_sealed_course_info: scores_by_color_pair
    score_by_color_pair_sorted, \* print_sealed_course_info: the display order
    gpc,              \* grading: "fetched" | "graded" | "printed" | "raised"
    gerror,           \* the exception that ended the grading, "" when none
    cache_files,      \* CACHE_DIR_17LANDS: the files, each a name and a text
    fetches,          \* the requests.get calls made, by query string
    completed,        \* the query strings of the queries that returned
    last_query,       \* the last call of pull_17lands and how it went
    grade_calls,      \* the last two calls of get_grade_for_score: score and grade
    content,          \* inode -> the characters written to that file so far
    offset,           \* follow: position of `file`, in characters
    yields            \* the strings follow has yielded, each with the read it came from

tailVars == <<files, path, fIno, fPos, fObj, openObjs, current_inode, inode, pc,
              line, yielded, next_line_event, prev_event, calls, logs, flogs, status, error>>
partVars == <<pool, include_lands, buckets, ppc>>
gradeVars == <<provider_records, eoe_rankings, rankings_by_arena_id, normal_distribution,
               land_count, scores_by_color_pair, score_by_color_pair_sorted, gpc, gerror>>
cacheVars == <<cache_files, fetches, completed, last_query>>
scaleVars == <<grade_calls>>
followVars == <<content, offset, yields>>
vars == <<tailVars, partVars, gradeVars, cacheVars, scaleVars, followVars>>

----------------------------------------------------------------------------
(* Bounds of the model *)

\* lines the log writer appends in one run
MaxWrites == 3
\* files created at the log path after the first one
MaxRotations == 1
\* cards in a pool
MaxPool == 2

----------------------------------------------------------------------------
(* Tokens *)

Whitespace == {" "}

\* \w+ : the event names
WordTokens == {"EventGetCoursesV2", "LogBusinessEvents", "EventJoin"}

\* [a-f0-9-]+ : the correlation ids the response pattern accepts
HexIdTokens == {"ab-1"}

\* JSON number literals
NumTokens == {"1"}

\* JSON string literals and the text each decodes to
StrContent ==
    ("\"Courses\"" :> <<"Courses">>) @@
    ("\"id\"" :> <<"id">>) @@
    ("\"x\"" :> <<"x">>) @@
    ("\"a\"" :> <<"a">>) @@
    ("\"request\"" :> <<"request">>) @@
    ("\"{\\\"a\\\": 1}\"" :> <<"{", "\"a\"", ":", "1", "}">>) @@
    ("\"OK\"" :> <<"OK">>) @@
    ("\"\\\"DETAILED LOGS: x\\\"\"" :> <<"\"DETAILED LOGS: x\"">>) @@
    ("\"DETAILED LOGS: x\"" :> <<"DETAILED LOGS", ":", "x">>)

StrTokens == DOMAIN StrContent

----------------------------------------------------------------------------
(* str methods and operators, on token sequences *)

\* str.strip(): leading and trailing whitespace removed
RECURSIVE LStrip(_)
LStrip(s) == IF s # <<>> /\ Head(s) \in Whitespace THEN LStrip(Tail(s)) ELSE s

RECURSIVE RStrip(_)
RStrip(s) ==
    IF s # <<>> /\ s[Len(s)] \in Whitespace THEN RStrip(SubSeq(s, 1, Len(s) - 1)) ELSE s

Strip(s) == RStrip(LStrip(s))

\* the text of a token: a string literal is written with its content escaped
RECURSIVE TokenCount(_, _)
TokenCount(t, w) ==
    IF t = w THEN 1
    ELSE IF t \in StrTokens
         THEN LET c == StrContent[t]
                  RECURSIVE Sum(_)
                  Sum(i) == IF i > Len(c) THEN 0 ELSE TokenCount(c[i], w) + Sum(i + 1)
              IN  Sum(1)
         ELSE 0

\* str.count(w)
RECURSIVE Count(_, _)
Count(s, w) == IF s = <<>> THEN 0 ELSE TokenCount(Head(s), w) + Count(Tail(s), w)

\* w in s
Contains(s, w) == Count(s, w) > 0

\* s.startswith(w)
StartsWith(s, w) == s # <<>> /\ Head(s) = w

\* s.split(sep): the pieces between the separators
RECURSIVE SplitAcc(_, _, _, _)
SplitAcc(s, sep, cur, acc) ==
    IF s = <<>> THEN Append(acc, cur)
    ELSE IF Head(s) = sep THEN SplitAcc(Tail(s), sep, <<>>, Append(acc, cur))
    ELSE SplitAcc(Tail(s), sep, Append(cur, Head(s)), acc)

Split(s, sep) == SplitAcc(s, sep, <<>>, <<>>)

----------------------------------------------------------------------------
(* json.loads *)

JsonFail == [ok |-> FALSE, val |-> <<>>, next |-> 0]

RECURSIVE ParseValue(_, _), ParseMembers(_, _, _), ParseElements(_, _, _)

\* one JSON value starting at token i
ParseValue(s, i) ==
    IF i > Len(s) THEN JsonFail
    ELSE IF s[i] \in StrTokens
         THEN [ok |-> TRUE, val |-> <<"str", StrContent[s[i]]>>, next |-> i + 1]
    ELSE IF s[i] \in NumTokens
         THEN [ok |-> TRUE, val |-> <<"num", s[i]>>, next |-> i + 1]
    ELSE IF s[i] = "{"
         THEN IF i + 1 <= Len(s) /\ s[i + 1] = "}"
              THEN [ok |-> TRUE, val |-> <<"obj", <<>>>>, next |-> i + 2]
              ELSE ParseMembers(s, i + 1, <<>>)
    ELSE IF s[i] = "["
         THEN IF i + 1 <= Len(s) /\ s[i + 1] = "]"
              THEN [ok |-> TRUE, val |-> <<"arr", <<>>>>, next |-> i + 2]
              ELSE ParseElements(s, i + 1, <<>>)
    ELSE JsonFail

\* the members of an object: string ":" value, separated by ",", closed by "}"
ParseMembers(s, i, acc) ==
    IF i + 1 > Len(s) \/ s[i] \notin StrTokens \/ s[i + 1] # ":" THEN JsonFail
    ELSE LET r == ParseValue(s, i + 2) IN
         IF ~r.ok \/ r.next > Len(s) THEN JsonFail
         ELSE LET acc2 == Append(acc, <<StrContent[s[i]], r.val>>) IN
              IF s[r.next] = "}"
              THEN [ok |-> TRUE, val |-> <<"obj", acc2>>, next |-> r.next + 1]
              ELSE IF s[r.next] = "," THEN ParseMembers(s, r.next + 1, acc2)
              ELSE JsonFail

\* the elements of an array: values separated by ",", closed by "]"
ParseElements(s, i, acc) ==
    LET r == ParseValue(s, i) IN
    IF ~r.ok \/ r.next > Len(s) THEN JsonFail
    ELSE LET acc2 == Append(acc, r.val) IN
         IF s[r.next] = "]"
         THEN [ok |-> TRUE, val |-> <<"arr", acc2>>, next |-> r.next + 1]
         ELSE IF s[r.next] = "," THEN ParseElements(s, r.next + 1, acc2)
         ELSE JsonFail

\* json.loads(s): ok with the decoded value, or not ok (JSONDecodeError)
json_loads(s) ==
    LET r == ParseValue(s, 1) IN
    IF r.ok /\ r.next = Len(s) + 1 THEN r ELSE JsonFail

\* whether a decoded value is a dict / a str
IsDict(v) == v[1] = "obj"
IsStr(v) == v[1] = "str"

\* key in d, for a decoded dict d
HasKey(d, k) == \E i \in 1..Len(d[2]) : d[2][i][1] = k

\* d[key]: a repeated key keeps its last value
GetItem(d, k) ==
    LET i == CHOOSE j \in 1..Len(d[2]) :
                 /\ d[2][j][1] = k
                 /\ \A m \in (j + 1)..Len(d[2]) : d[2][m][1] # k
    IN  d[2][i][2]

----------------------------------------------------------------------------
(* The log: the lines a writer can append (without the newline) *)

VersionLine == <<"Version:", " ", "a", "/", "2025.1", "/", "b">>
DetailedEnabled == <<"DETAILED LOGS", ":", " ", "ENABLED">>
DetailedNoColon == <<"DETAILED LOGS">>
RespCourses == <<"<==", " ", "EventGetCoursesV2", "(", "ab-1", ")">>
RespJoin == <<"<==", " ", "EventJoin", "(", "ab-1", ")">>
RespNonHexId == <<"<==", " ", "EventGetCoursesV2", "(", "id-123", ")">>
RespPrefixed == <<"[marker]", "<==", " ", "EventGetCoursesV2", "(", "ab-1", ")">>
PayloadCourses == <<"{", "\"Courses\"", ":", "[", "]", "}">>
StatusOk == <<"OK", " ">>
ReqPrefix == "[UnityCrossThreadLogger]==>"
ReqBusiness ==
    <<ReqPrefix, " ", "LogBusinessEvents", " ",
      "{", "\"id\"", ":", "\"x\"", ",", "\"request\"", ":", "\"{\\\"a\\\": 1}\"", "}">>
ReqJoin ==
    <<ReqPrefix, " ", "EventJoin", " ",
      "{", "\"id\"", ":", "\"x\"", ",", "\"request\"", ":", "\"{\\\"a\\\": 1}\"", "}">>
ReqNoRequestField ==
    <<ReqPrefix, " ", "LogBusinessEvents", " ", "{", "\"id\"", ":", "\"x\"", "}">>
ReqMalformedJson ==
    <<ReqPrefix, " ", "LogBusinessEvents", " ", "{", "\"request\"", ":">>
ReqMentionsDetailedLogs ==
    <<ReqPrefix, " ", "LogBusinessEvents", " ",
      "{", "\"request\"", ":", "\"\\\"DETAILED LOGS: x\\\"\"", "}">>

LogLines ==
    {VersionLine, DetailedEnabled, DetailedNoColon,
     RespCourses, RespJoin, RespNonHexId, RespPrefixed,
     PayloadCourses, StatusOk,
     ReqBusiness, ReqJoin, ReqNoRequestField, ReqMalformedJson, ReqMentionsDetailedLogs}

\* the callbacks the caller registers
start_callbacks == {"LogBusinessEvents"}
end_callbacks == {"EventGetCoursesV2", "LogBusinessEvents"}

----------------------------------------------------------------------------
(* The regular expressions of follow_player_log *)

NoMatch == [matched |-> FALSE, group1 |-> "", group2 |-> <<>>]

\* ResponseAt with the id pattern widened to anything between the parentheses
ResponseAtAnyId(s, i) ==
    /\ i + 5 <= Len(s)
    /\ s[i] = "<=="
    /\ s[i + 1] = " "
    /\ s[i + 2] \in WordTokens
    /\ s[i + 3] = "("
    /\ s[i + 5] = ")"

\* re.search(r"<== (\w+)\(([a-f0-9-]+)\)", s): the leftmost match
ResponseAt(s, i) ==
    /\ i + 5 <= Len(s)
    /\ s[i] = "<=="
    /\ s[i + 1] = " "
    /\ s[i + 2] \in WordTokens
    /\ s[i + 3] = "("
    /\ s[i + 4] \in HexIdTokens
    /\ s[i + 5] = ")"

SearchResponse(s) ==
    IF \E i \in 1..Len(s) : ResponseAt(s, i)
    THEN LET i == CHOOSE j \in 1..Len(s) :
                      ResponseAt(s, j) /\ \A m \in 1..(j - 1) : ~ResponseAt(s, m)
         IN  [matched |-> TRUE, group1 |-> s[i + 2], group2 |-> <<s[i + 4]>>]
    ELSE NoMatch

\* re.search(r"\[UnityCrossThreadLogger\]==> (\w+) (.*)", s): the leftmost match
RequestAt(s, i) ==
    /\ i + 3 <= Len(s)
    /\ s[i] = ReqPrefix
    /\ s[i + 1] = " "
    /\ s[i + 2] \in WordTokens
    /\ s[i + 3] = " "

SearchRequest(s) ==
    IF \E i \in 1..Len(s) : RequestAt(s, i)
    THEN LET i == CHOOSE j \in 1..Len(s) :
                      RequestAt(s, j) /\ \A m \in 1..(j - 1) : ~RequestAt(s, m)
         IN  [matched |-> TRUE, group1 |-> s[i + 2], group2 |-> SubSeq(s, i + 4, Len(s))]
    ELSE NoMatch

----------------------------------------------------------------------------
(* One iteration of the loop body of follow_player_log *)

\* what an iteration leaves: next_line_event, the callbacks invoked, the logger
\* records, and the exception that left the loop ("" when none)
Outcome(nle, cs, ls, exc) == [next |-> nle, calls |-> cs, logs |-> ls, exc |-> exc]

\* a callback either returns or raises
Invoke(kind, name, payload, hres, nleAfter, nleBefore) ==
    IF hres = "raise"
    THEN Outcome(nleBefore, <<<<kind, name, payload>>>>, <<>>, "HandlerError")
    ELSE Outcome(nleAfter, <<<<kind, name, payload>>>>, <<>>, "")

\* EndLine with a line that does not decode dropped instead of handed over raw
EndLineDropsUndecodable(ln, nle, hres) ==
    IF nle \in end_callbacks
    THEN LET r == json_loads(ln)
         IN  IF r.ok THEN Invoke("end", nle, r.val, hres, "", nle)
             ELSE Outcome("", <<>>, <<"debug: undecodable payload">>, "")
    ELSE Outcome("", <<>>, <<"debug: unhandled end line event">>, "")

\* lines 77-88: the line after a response marker
EndLine(ln, nle, hres) ==
    IF nle \in end_callbacks
    THEN LET r == json_loads(ln)
             payload == IF r.ok THEN r.val ELSE <<"str", ln>>
         IN  Invoke("end", nle, payload, hres, "", nle)
    ELSE Outcome("", <<>>, <<"debug: unhandled end line event">>, "")

\* lines 90-92
VersionBranch(ln) ==
    LET mtga_version == Strip(Split(ln, "/")[2])
    IN  Outcome("", <<>>, <<"info: found game version">>, "")

\* lines 93-99
DetailedLogsBranch(ln) ==
    IF Count(ln, ":") = 0
    THEN Outcome("", <<>>, <<>>, "IndexError")
    ELSE LET detailed_log_status == Strip(Split(ln, ":")[2])
         IN  IF detailed_log_status = <<"DISABLED">>
             THEN Outcome("", <<>>, <<"warning: detailed logs are disabled",
                                      "warning: enable detailed logs">>, "")
             ELSE Outcome("", <<>>, <<"info: detailed logs status">>, "")

\* lines 102-106
ResponseBranch(ln) ==
    LET match == SearchResponse(ln)
    IN  IF match.matched THEN Outcome(match.group1, <<>>, <<>>, "")
        ELSE Outcome("", <<>>, <<>>, "")

\* RequestBranch handing over the outer object instead of the decoded request
RequestBranchOuterPayload(ln, hres) ==
    LET match == SearchRequest(ln)
    IN  IF ~match.matched THEN Outcome("", <<>>, <<>>, "")
        ELSE LET outer == json_loads(match.group2)
             IN  IF ~outer.ok THEN Outcome("", <<>>, <<>>, "JSONDecodeError")
                 ELSE IF match.group1 \in start_callbacks
                 THEN Invoke("start", match.group1, outer.val, hres, "", "")
                 ELSE Outcome("", <<>>, <<"debug: unhandled start line event">>, "")

\* lines 109-119
RequestBranch(ln, hres) ==
    LET match == SearchRequest(ln)
    IN  IF ~match.matched THEN Outcome("", <<>>, <<>>, "")
        ELSE LET current_line_event == match.group1
                 outer == json_loads(match.group2)
             IN  IF ~outer.ok THEN Outcome("", <<>>, <<>>, "JSONDecodeError")
                 ELSE IF ~IsDict(outer.val) THEN Outcome("", <<>>, <<>>, "TypeError")
                 ELSE IF ~HasKey(outer.val, <<"request">>)
                      THEN Outcome("", <<>>, <<>>, "KeyError")
                 ELSE LET request == GetItem(outer.val, <<"request">>)
                      IN  IF ~IsStr(request) THEN Outcome("", <<>>, <<>>, "TypeError")
                          ELSE LET inner == json_loads(request[2])
                               IN  IF ~inner.ok
                                   THEN Outcome("", <<>>, <<>>, "JSONDecodeError")
                                   ELSE IF current_line_event \in start_callbacks
                                   THEN Invoke("start", current_line_event, inner.val,
                                               hres, "", "")
                                   ELSE Outcome("", <<>>,
                                                <<"debug: unhandled start line event">>, "")

\* ProcessLine testing for the markers before the awaited payload
ProcessLineMarkersFirst(ln, nle, hres) ==
    IF Contains(ln, "Version:") /\ Count(ln, "/") = 2 THEN VersionBranch(ln)
    ELSE IF Contains(ln, "DETAILED LOGS") THEN DetailedLogsBranch(ln)
    ELSE IF StartsWith(ln, "<==") THEN ResponseBranch(ln)
    ELSE IF StartsWith(ln, ReqPrefix) THEN RequestBranch(ln, hres)
    ELSE IF nle # "" THEN EndLine(ln, nle, hres)
    ELSE Outcome("", <<>>, <<>>, "")

\* lines 77-119: the if / elif chain
ProcessLine(ln, nle, hres) ==
    IF nle # "" THEN EndLine(ln, nle, hres)
    ELSE IF Contains(ln, "Version:") /\ Count(ln, "/") = 2 THEN VersionBranch(ln)
    ELSE IF Contains(ln, "DETAILED LOGS") THEN DetailedLogsBranch(ln)
    ELSE IF StartsWith(ln, "<==") THEN ResponseBranch(ln)
    ELSE IF StartsWith(ln, ReqPrefix) THEN RequestBranch(ln, hres)
    ELSE Outcome("", <<>>, <<>>, "")

----------------------------------------------------------------------------
(* The tailer: follow (a generator) driven by the for loop of             *)
(* follow_player_log, in one thread; the log writer is another process.    *)

Events == WordTokens

TotalWrites ==
    LET RECURSIVE Sum(_)
        Sum(i) == IF i > Len(files) THEN 0 ELSE Len(files[i]) + Sum(i + 1)
    IN  Sum(1)

\* follow_player_log line 74-75 and follow line 22: the log exists, is open,
\* and nothing has been read
TailInit ==
    /\ files = <<<<>>>>
    /\ path = 1
    /\ fIno = 1
    /\ fPos = 0
    /\ fObj = 0
    /\ openObjs = {0}
    /\ current_inode = 1
    /\ inode = 1
    /\ pc = "readline"
    /\ line = <<>>
    /\ yielded = FALSE
    /\ next_line_event = ""
    /\ prev_event = ""
    /\ calls = <<>>
    /\ logs = <<>>
    /\ flogs = <<>>
    /\ status = "running"
    /\ error = ""

PartIdle ==
    /\ pool = <<>>
    /\ include_lands = FALSE
    /\ buckets = <<>>
    /\ ppc = "input"

\* get_graded_rankings has not been called
GradeIdle ==
    /\ provider_records = <<>>
    /\ eoe_rankings = <<>>
    /\ rankings_by_arena_id = <<>>
    /\ normal_distribution = "None"
    /\ land_count = 17
    /\ scores_by_color_pair = <<>>
    /\ score_by_color_pair_sorted = <<>>
    /\ gpc = "fetched"
    /\ gerror = ""

\* get_grade_for_score has not been called
ScaleIdle == grade_calls = <<>>

\* pull_17lands has not been called, the cache directory is empty
CacheIdle ==
    /\ cache_files = {}
    /\ fetches = <<>>
    /\ completed = {}
    /\ last_query = [n |-> 0, params_str |-> <<>>, fetched |-> FALSE, outcome |-> "",
                     result |-> "", was_completed |-> FALSE, files_before |-> {}]

\* the character-level view of the log is not in use
FollowIdle ==
    /\ content = <<>>
    /\ offset = 0
    /\ yields = <<>>

\* an exception leaves the with statement of follow_player_log, which closes
\* player_log_file (file object 0); a file object opened by follow stays with
\* the generator
Leave(objs, exc) ==
    /\ status' = "ended"
    /\ error' = exc
    /\ openObjs' = objs \ {0}

(* the log writer *)

AppendLine(l) ==
    /\ status = "running"
    /\ path # 0
    /\ TotalWrites < MaxWrites
    /\ files' = [files EXCEPT ![path] = Append(@, l)]
    /\ UNCHANGED <<path, fIno, fPos, fObj, openObjs, current_inode, inode, pc, line,
                   yielded, next_line_event, prev_event, calls, logs, flogs, status, error>>
    /\ UNCHANGED <<partVars, gradeVars, cacheVars, scaleVars, followVars>>

\* a new file is renamed over the log path
ReplaceLog ==
    /\ status = "running"
    /\ path # 0
    /\ Len(files) <= MaxRotations
    /\ files' = Append(files, <<>>)
    /\ path' = Len(files) + 1
    /\ UNCHANGED <<fIno, fPos, fObj, openObjs, current_inode, inode, pc, line,
                   yielded, next_line_event, prev_event, calls, logs, flogs, status, error>>
    /\ UNCHANGED <<partVars, gradeVars, cacheVars, scaleVars, followVars>>

\* the log is moved away or deleted
RemoveLog ==
    /\ status = "running"
    /\ path # 0
    /\ Len(files) <= MaxRotations
    /\ path' = 0
    /\ UNCHANGED <<files, fIno, fPos, fObj, openObjs, current_inode, inode, pc, line,
                   yielded, next_line_event, prev_event, calls, logs, flogs, status, error>>
    /\ UNCHANGED <<partVars, gradeVars, cacheVars, scaleVars, followVars>>

\* a new log is created at the path
CreateLog ==
    /\ status = "running"
    /\ path = 0
    /\ files' = Append(files, <<>>)
    /\ path' = Len(files) + 1
    /\ UNCHANGED <<fIno, fPos, fObj, openObjs, current_inode, inode, pc, line,
                   yielded, next_line_event, prev_event, calls, logs, flogs, status, error>>
    /\ UNCHANGED <<partVars, gradeVars, cacheVars, scaleVars, followVars>>

(* follow *)

\* lines 25-26 and 38: file.readline(); a line is yielded stripped
ReadLine ==
    /\ status = "running"
    /\ pc = "readline"
    /\ IF fPos < Len(files[fIno])
       THEN /\ line' = Strip(files[fIno][fPos + 1])
            /\ fPos' = fPos + 1
            /\ yielded' = TRUE
            /\ pc' = "body"
       ELSE /\ pc' = "stat"
            /\ UNCHANGED <<line, fPos, yielded>>
    /\ UNCHANGED <<files, path, fIno, fObj, openObjs, current_inode, inode,
                   next_line_event, prev_event, calls, logs, flogs, status, error>>
    /\ UNCHANGED <<partVars, gradeVars, cacheVars, scaleVars, followVars>>

\* lines 28-30: os.stat(file.name) and the comparison
StatPath ==
    /\ status = "running"
    /\ pc = "stat"
    /\ IF path = 0
       THEN /\ Leave(openObjs, "FileNotFoundError")
            /\ UNCHANGED <<inode, pc, flogs>>
       ELSE /\ inode' = path
            /\ IF path # current_inode
               THEN pc' = "reopen" /\ flogs' = <<"info: log file recreated">>
               ELSE pc' = "sleep" /\ flogs' = <<>>
            /\ UNCHANGED <<openObjs, status, error>>
    /\ UNCHANGED <<files, path, fIno, fPos, fObj, current_inode, line, yielded,
                   next_line_event, prev_event, calls, logs>>
    /\ UNCHANGED <<partVars, gradeVars, cacheVars, scaleVars, followVars>>

\* Reopen with the new file object left at the offset of the old one
ReopenKeepsOffset ==
    /\ status = "running"
    /\ pc = "reopen"
    /\ IF path = 0
       THEN /\ Leave(openObjs \ {fObj}, "FileNotFoundError")
            /\ UNCHANGED <<fIno, fPos, fObj, current_inode, pc>>
       ELSE /\ openObjs' = (openObjs \ {fObj}) \cup {fObj + 1}
            /\ fObj' = fObj + 1
            /\ fIno' = path
            /\ fPos' = IF fPos <= Len(files[path]) THEN fPos ELSE Len(files[path])
            /\ current_inode' = inode
            /\ pc' = "readline"
            /\ UNCHANGED <<status, error>>
    /\ flogs' = <<>>
    /\ UNCHANGED <<files, path, inode, line, yielded, next_line_event, prev_event,
                   calls, logs>>
    /\ UNCHANGED <<partVars, gradeVars, cacheVars, scaleVars, followVars>>

\* lines 31-34: file.close(), open(file.name), current_inode = inode
Reopen ==
    /\ status = "running"
    /\ pc = "reopen"
    /\ IF path = 0
       THEN /\ Leave(openObjs \ {fObj}, "FileNotFoundError")
            /\ UNCHANGED <<fIno, fPos, fObj, current_inode, pc>>
       ELSE /\ openObjs' = (openObjs \ {fObj}) \cup {fObj + 1}
            /\ fObj' = fObj + 1
            /\ fIno' = path
            /\ fPos' = 0
            /\ current_inode' = inode
            /\ pc' = "readline"
            /\ UNCHANGED <<status, error>>
    /\ flogs' = <<>>
    /\ UNCHANGED <<files, path, inode, line, yielded, next_line_event, prev_event,
                   calls, logs>>
    /\ UNCHANGED <<partVars, gradeVars, cacheVars, scaleVars, followVars>>

\* lines 36-37: time.sleep(0.1)
Sleep ==
    /\ status = "running"
    /\ pc = "sleep"
    /\ pc' = "readline"
    /\ UNCHANGED <<files, path, fIno, fPos, fObj, openObjs, current_inode, inode, line,
                   yielded, next_line_event, prev_event, calls, logs, flogs, status, error>>
    /\ UNCHANGED <<partVars, gradeVars, cacheVars, scaleVars, followVars>>

(* follow_player_log *)

\* lines 76-119: the loop body on the line follow yielded
Body ==
    /\ status = "running"
    /\ pc = "body"
    /\ \E hres \in {"return", "raise"} :
          LET o == ProcessLine(line, next_line_event, hres) IN
          /\ prev_event' = next_line_event
          /\ next_line_event' = o.next
          /\ calls' = o.calls
          /\ logs' = o.logs
          /\ IF o.exc = ""
             THEN pc' = "readline" /\ UNCHANGED <<openObjs, status, error>>
             ELSE pc' = "raised" /\ Leave(openObjs, o.exc)
    /\ UNCHANGED <<files, path, fIno, fPos, fObj, current_inode, inode, line, yielded,
                   flogs>>
    /\ UNCHANGED <<partVars, gradeVars, cacheVars, scaleVars, followVars>>

\* __main__.py lines 365-368: the operator interrupts; KeyboardInterrupt leaves
\* follow_player_log wherever the thread stands
Interrupt ==
    /\ status = "running"
    /\ Leave(openObjs, "KeyboardInterrupt")
    /\ UNCHANGED <<files, path, fIno, fPos, fObj, current_inode, inode, pc, line,
                   yielded, next_line_event, prev_event, calls, logs, flogs>>
    /\ UNCHANGED <<partVars, gradeVars, cacheVars, scaleVars, followVars>>

\* the generator is collected at some later time, or never: the file object it
\* holds is closed by its finalizer
Finalize ==
    /\ status = "ended"
    /\ fObj \in openObjs
    /\ openObjs' = openObjs \ {fObj}
    /\ UNCHANGED <<files, path, fIno, fPos, fObj, current_inode, inode, pc, line,
                   yielded, next_line_event, prev_event, calls, logs, flogs, status, error>>
    /\ UNCHANGED <<partVars, gradeVars, cacheVars, scaleVars, followVars>>

WriteLine == \E l \in LogLines : AppendLine(l)

Next ==
    \/ WriteLine
    \/ ReplaceLog
    \/ RemoveLog
    \/ CreateLog
    \/ ReadLine
    \/ StatPath
    \/ Reopen
    \/ Sleep
    \/ Body
    \/ Interrupt
    \/ Finalize

Init == TailInit /\ PartIdle /\ GradeIdle /\ CacheIdle /\ ScaleIdle /\ FollowIdle

Spec == Init /\ [][Next]_vars

----------------------------------------------------------------------------
(* Properties of the tailer *)

\* the line last yielded has been through the loop body
Processed == yielded /\ pc # "body"

\* the value {"Courses": []} decodes to
CoursesValue == <<"obj", <<<<<<"Courses">>, <<"arr", <<>>>>>>>>>>

\* the value {"a": 1} decodes to
NestedValue == <<"obj", <<<<<<"a">>, <<"num", "1">>>>>>>>

\* a line of the shape "... <== E(id)", whatever the id is made of
ResponseShaped(ln) ==
    \E i \in 1..Len(ln) :
        /\ i + 5 <= Len(ln)
        /\ ln[i] = "<==" /\ ln[i + 1] = " " /\ ln[i + 2] \in Events
        /\ ln[i + 3] = "(" /\ ln[i + 5] = ")"

ResponseName(ln) ==
    LET i == CHOOSE j \in 1..Len(ln) : j + 5 <= Len(ln) /\ ln[j] = "<==" IN ln[i + 2]

C3_NoLineRaises ==
    error \notin {"IndexError", "JSONDecodeError", "KeyError", "TypeError"}

\* C4: after a line is processed while next_line_event is non-empty,
\* next_line_event is empty, whatever the dispatch did, and a name without an
\* end-handler reaches no handler.
C4_AwaitingLastsOneLine ==
    (Processed /\ prev_event # "")
       => /\ next_line_event = ""
          /\ (prev_event \notin end_callbacks => calls = <<>>)

\* C5: when no new line is available the tailer retries; nothing but the
\* operator's interrupt ends it there.
C5_EndOfStreamNeverEndsTailer ==
    (status = "ended" /\ pc \in {"stat", "reopen", "sleep"}) => error = "KeyboardInterrupt"

\* C6: when os.stat at end of stream finds a file of another identity at the log
\* path, follow reopens the path: the old file object is closed, the new one reads
\* the file now at the path from its first line, and next_line_event is what it
\* was; a payload read as the first line of the new file, awaited since the old
\* file, is dispatched once to the end-handler of the awaited name.
C6_ReopenPreservesParser ==
    /\ [][(pc = "stat" /\ status = "running" /\ status' = "running" /\ pc' # "stat"
             /\ path # current_inode) => pc' = "reopen"]_vars
    /\ [][fObj' # fObj =>
             /\ pc = "reopen"
             /\ next_line_event' = next_line_event
             /\ fIno' = path /\ fPos' = 0
             /\ fObj \notin openObjs' /\ fObj' \in openObjs'
             /\ pc' = "readline" /\ status' = "running"]_vars
    /\ [](Processed /\ fObj > 0 /\ fPos = 1 /\ prev_event \in end_callbacks
             /\ line = PayloadCourses
            => calls = <<<<"end", prev_event, CoursesValue>>>>)

C6_Witness ==
    /\ Processed /\ status = "running"
    /\ fObj = 1 /\ fPos = 1 /\ fIno = 2
    /\ prev_event = "EventGetCoursesV2"
    /\ line = PayloadCourses
    /\ calls = <<<<"end", "EventGetCoursesV2", CoursesValue>>>>

\* C7: after the operator's interrupt no log file object is open.
C7_NoHandleOpenAfterInterrupt ==
    (status = "ended" /\ error = "KeyboardInterrupt") => openObjs = {}

\* C8 as stated: every request line "[UnityCrossThreadLogger]==> E <json>" whose
\* JSON has a request field holding JSON text, read in Idle, is handed decoded to
\* the start-handler of E exactly once (to none when E has no start-handler), and
\* the tailer stays Idle.
C8_EveryRequestDispatches ==
    (Processed /\ prev_event = ""
       /\ line \in {ReqBusiness, ReqJoin, ReqMentionsDetailedLogs})
       => /\ next_line_event = ""
          /\ IF line[3] \in start_callbacks
             THEN Len(calls) = 1 /\ calls[1][1] = "start" /\ calls[1][2] = line[3]
             ELSE calls = <<>>

\* C8 amended: a request line as above that neither contains "DETAILED LOGS" nor
\* is taken for a version line is handed decoded to the start-handler of E exactly
\* once (to none when E has no start-handler); one that contains "DETAILED LOGS"
\* is taken for a logging-status line and reaches no handler.  The tailer stays
\* Idle in both cases.
C8_UnshadowedRequestDispatches ==
    /\ (Processed /\ prev_event = "" /\ line = ReqBusiness)
          => /\ calls = <<<<"start", "LogBusinessEvents", NestedValue>>>>
             /\ next_line_event = ""
    /\ (Processed /\ prev_event = "" /\ line = ReqJoin)
          => /\ calls = <<>>
             /\ logs = <<"debug: unhandled start line event">>
             /\ next_line_event = ""
    /\ (Processed /\ prev_event = "" /\ line = ReqMentionsDetailedLogs)
          => /\ calls = <<>>
             /\ logs = <<"info: detailed logs status">>
             /\ next_line_event = ""

C8_Witness ==
    /\ Processed /\ status = "running"
    /\ prev_event = ""
    /\ line = ReqBusiness
    /\ calls = <<<<"start", "LogBusinessEvents", NestedValue>>>>
    /\ next_line_event = ""

\* a line that has the shape of one of the markers of the Idle state
MarkerShaped(ln) ==
    \/ Contains(ln, "Version:") /\ Count(ln, "/") = 2
    \/ Contains(ln, "DETAILED LOGS")
    \/ StartsWith(ln, "<==")
    \/ StartsWith(ln, ReqPrefix)

----------------------------------------------------------------------------
(* The color-pair partition *)

\* follow_log.py COLOR_PAIRS: the keys, in the order of the dict
COLOR_PAIRS ==
    <<<<"W", "U">>, <<"U", "B">>, <<"B", "R">>, <<"R", "G">>, <<"G", "W">>,
      <<"W", "B">>, <<"U", "R">>, <<"B", "G">>, <<"R", "W">>, <<"G", "U">>>>

PairKeys == {COLOR_PAIRS[i] : i \in 1..Len(COLOR_PAIRS)}

\* set_rankings_by_arena_id: the cards of the statistics feed, by arena id; a
\* color is a string of color symbols, a type line entry a string of words
Card(color, types) == [color |-> color, types |-> types]

set_rankings_by_arena_id ==
    <<Card(<<"W">>, <<<<"Creature">>>>),
      Card(<<"U">>, <<<<"Creature">>>>),
      Card(<<"B">>, <<<<"Instant">>>>),
      Card(<<"R">>, <<<<"Creature">>>>),
      Card(<<"G">>, <<<<"Creature">>>>),
      Card(<<"W", "U">>, <<<<"Creature">>>>),
      Card(<<"W", "G">>, <<<<"Creature">>>>),
      Card(<<"W", "U", "B">>, <<<<"Creature">>>>),
      Card(<<>>, <<<<"Artifact">>, <<"Creature">>>>),
      Card(<<"G">>, <<<<"Land", " ", "Forest">>>>),
      Card(<<>>, <<<<"Land">>>>),
      Card(<<>>, <<<<"Land", " ", "Forest", " ", "Island">>>>),
      Card(<<>>, <<<<"Land", " ", "Forest">>, <<"Artifact">>>>)>>

ArenaIds == 1..Len(set_rankings_by_arena_id)

\* __main__.py lines 234-238
has_card_type(ranking, type_name) ==
    \E i \in 1..Len(ranking.types) : Contains(ranking.types[i], type_name)

\* are_card_colors_in_pair accepting a card as soon as one of its colors fits
are_card_colors_in_pair_any(card_colors, color_pair) ==
    \E i \in 1..Len(card_colors) :
        \E j \in 1..Len(color_pair) : color_pair[j] = card_colors[i]

\* are_card_colors_in_pair turning away a card without colors
are_card_colors_in_pair_nonempty(card_colors, color_pair) ==
    /\ card_colors # <<>>
    /\ \A i \in 1..Len(card_colors) :
          \E j \in 1..Len(color_pair) : color_pair[j] = card_colors[i]

\* follow_log.py lines 144-148: no color of the card is outside the pair
are_card_colors_in_pair(card_colors, color_pair) ==
    \A i \in 1..Len(card_colors) :
        \E j \in 1..Len(color_pair) : color_pair[j] = card_colors[i]

\* __main__.py lines 83-90: the inner loop, for one color pair
RECURSIVE BucketOf(_, _, _)
BucketOf(color_pair, cards, lands) ==
    IF cards = <<>> THEN <<>>
    ELSE LET arena_id == Head(cards)
             ranking == set_rankings_by_arena_id[arena_id]
             rest == BucketOf(color_pair, Tail(cards), lands)
         IN  IF ~lands /\ has_card_type(ranking, "Land") THEN rest
             ELSE IF are_card_colors_in_pair(ranking.color, color_pair)
                  THEN <<arena_id>> \o rest
                  ELSE rest

\* __main__.py lines 79-92
split_pool_by_color_pair(cards, lands) ==
    [color_pair \in PairKeys |-> BucketOf(color_pair, cards, lands)]

PartInit ==
    /\ pool = <<>>
    /\ include_lands \in BOOLEAN
    /\ buckets = <<>>
    /\ ppc = "input"

\* the pool of a course: one more card
AddCard ==
    /\ ppc = "input"
    /\ Len(pool) < MaxPool
    /\ \E arena_id \in ArenaIds : pool' = Append(pool, arena_id)
    /\ UNCHANGED <<include_lands, buckets, ppc>>
    /\ UNCHANGED <<tailVars, gradeVars, cacheVars, scaleVars, followVars>>

SplitPool ==
    /\ ppc = "input"
    /\ buckets' = split_pool_by_color_pair(pool, include_lands)
    /\ ppc' = "split"
    /\ UNCHANGED <<pool, include_lands>>
    /\ UNCHANGED <<tailVars, gradeVars, cacheVars, scaleVars, followVars>>

PartitionNext ==
    \/ AddCard
    \/ SplitPool

PartitionInit == TailInit /\ PartInit /\ GradeIdle /\ CacheIdle /\ ScaleIdle /\ FollowIdle

PartitionSpec == PartitionInit /\ [][PartitionNext]_vars

----------------------------------------------------------------------------
(* Properties of the partition *)

\* how many times arena id c occurs in a sequence of arena ids
Occurrences(seq, c) == Cardinality({i \in 1..Len(seq) : seq[i] = c})

ColorSet(str) == {str[i] : i \in 1..Len(str)}

IsLandCard(c) ==
    \E i \in 1..Len(set_rankings_by_arena_id[c].types) :
        \E k \in 1..Len(set_rankings_by_arena_id[c].types[i]) :
            set_rankings_by_arena_id[c].types[i][k] = "Land"

PoolCards == {pool[i] : i \in 1..Len(pool)}

ColorlessNonLand(c) == set_rankings_by_arena_id[c].color = <<>> /\ ~IsLandCard(c)

\* C9 as stated: a colorless card that is not a land is in none of the 10
\* buckets.
C9_ColorlessInNoBucket ==
    ppc = "split" =>
        \A c \in PoolCards : ColorlessNonLand(c) =>
            \A p \in PairKeys : Occurrences(buckets[p], c) = 0

\* C9 amended: a colorless card that is not a land is in every one of the 10
\* buckets, once for each copy of it in the pool.
C9_ColorlessInEveryBucket ==
    ppc = "split" =>
        /\ DOMAIN buckets = PairKeys /\ Cardinality(PairKeys) = 10
        /\ \A c \in PoolCards : ColorlessNonLand(c) =>
              \A p \in PairKeys : Occurrences(buckets[p], c) = Occurrences(pool, c)

C9_Witness ==
    /\ ppc = "split"
    /\ 9 \in PoolCards
    /\ \A p \in PairKeys : Occurrences(buckets[p], 9) >= 1

\* C10: a pool card that is not a land and has a non-empty color identity C is
\* in the bucket of pair P exactly when C is a subset of P: a card of one color
\* is in the 4 pairs with that color and in no other, a card with colors {W,U}
\* is in the pair WU alone.
C10_InBucketIffSubset ==
    ppc = "split" =>
        \A c \in PoolCards :
            LET C == ColorSet(set_rankings_by_arena_id[c].color)
                In == {p \in PairKeys : Occurrences(buckets[p], c) > 0}
            IN  (C # {} /\ ~IsLandCard(c)) =>
                   /\ \A p \in PairKeys :
                         /\ (p \in In) <=> (C \subseteq ColorSet(p))
                         /\ p \in In => Occurrences(buckets[p], c) = Occurrences(pool, c)
                   /\ Cardinality(C) = 1 => Cardinality(In) = 4
                   /\ C = {"W", "U"} => In = {<<"W", "U">>}

C10_Witness ==
    /\ ppc = "split"
    /\ pool = <<6, 1>>
    /\ buckets[<<"W", "U">>] = <<6, 1>>
    /\ buckets[<<"W", "B">>] = <<1>>
    /\ buckets[<<"U", "B">>] = <<>>

----------------------------------------------------------------------------
(* The statistical grader and the ranking enricher                         *)
(* (mtga_helper/__main__.py, mtga_helper/grading.py,                       *)
(* mtga_helper/seventeen_lands.py).                                        *)
(*                                                                         *)
(* A float is a record: None, NaN, or a number.  Win rates and scores are  *)
(* counted in hundredths (0.54 is 54, the score 69.1 is 69): the grade     *)
(* thresholds are whole numbers, so score >= threshold is decided by the   *)
(* whole part of the score.                                                *)

\* records of the statistics feed in one response
MaxRecords == 3

None == [kind |-> "None", val |-> 0]
NaN == [kind |-> "nan", val |-> 0]
Float(v) == [kind |-> "float", val |-> v]

\* `if x:` for x a float or None; NaN is true
Truthy(x) == x.kind = "nan" \/ (x.kind = "float" /\ x.val # 0)

\* score >= threshold; every comparison with NaN is false
GreaterEqual(score, threshold) == score.kind = "float" /\ score.val >= threshold

\* GRADE_THRESHOLDS, in the order of the dict
GRADE_THRESHOLDS ==
    <<<<"A+", 99>>, <<"A", 95>>, <<"A-", 90>>, <<"B+", 85>>, <<"B", 76>>,
      <<"B-", 68>>, <<"C+", 57>>, <<"C", 45>>, <<"C-", 36>>, <<"D+", 27>>,
      <<"D", 17>>, <<"D-", 5>>, <<"F", 0>>>>

\* get_grade_for_score comparing with > instead of >=
RECURSIVE get_grade_for_score_strict(_, _)
get_grade_for_score_strict(score, i) ==
    IF i > Len(GRADE_THRESHOLDS) THEN "F"
    ELSE IF score.kind = "float" /\ score.val > GRADE_THRESHOLDS[i][2]
         THEN GRADE_THRESHOLDS[i][1]
         ELSE get_grade_for_score_strict(score, i + 1)

\* get_grade_for_score / score_to_grade: the loop from item i of the dict on
RECURSIVE get_grade_for_score(_, _)
get_grade_for_score(score, i) ==
    IF i > Len(GRADE_THRESHOLDS) THEN "F"
    ELSE IF GreaterEqual(score, GRADE_THRESHOLDS[i][2]) THEN GRADE_THRESHOLDS[i][1]
         ELSE get_grade_for_score(score, i + 1)

\* the raw win rates the feed may carry for a card
WinRates == {None, Float(0), Float(50), Float(58)}

\* the cards of the catalogue the feed may hold a record of
FeedIds == {1, 6, 9, 11, 12, 13}

\* the cards a course's CardPool may hold
PoolIds == {1, 6, 9, 12}

\* one record of the response of the statistics provider
ProviderRecord(id, rate) ==
    [mtga_id |-> id,
     color |-> set_rankings_by_arena_id[id].color,
     types |-> set_rankings_by_arena_id[id].types,
     ever_drawn_win_rate |-> rate]

\* the iteration orders a set of color symbols may have
HashOrders == {<<"W", "U", "B", "R", "G">>, <<"G", "R", "B", "U", "W">>}

\* follow_log.py lines 127-142; "".join(list(found_colors)) in the order the
\* set happens to iterate in
land_string_to_colors(land_type_str, order) ==
    LET chunks == SelectSeq(land_type_str, LAMBDA t : t \notin Whitespace)
        Has(word) == \E i \in 1..Len(chunks) : chunks[i] = word
        found_colors ==
            (IF Has("Plains") THEN {"W"} ELSE {}) \cup
            (IF Has("Island") THEN {"U"} ELSE {}) \cup
            (IF Has("Swamp") THEN {"B"} ELSE {}) \cup
            (IF Has("Mountain") THEN {"R"} ELSE {}) \cup
            (IF Has("Forest") THEN {"G"} ELSE {})
    IN  SelectSeq(order, LAMBDA c : c \in found_colors)

\* get_normal_distribution lines 201-205: the values that pass `if card[key]`
RECURSIVE CollectWinRates(_)
CollectWinRates(rankings) ==
    IF rankings = <<>> THEN <<>>
    ELSE IF Truthy(Head(rankings).ever_drawn_win_rate)
         THEN <<Head(rankings).ever_drawn_win_rate.val>> \o CollectWinRates(Tail(rankings))
         ELSE CollectWinRates(Tail(rankings))

RECURSIVE SumSeq(_)
SumSeq(xs) == IF xs = <<>> THEN 0 ELSE Head(xs) + SumSeq(Tail(xs))

\* NormalDistribution(mu, sigma): mu is mu_num / mu_den and the square of
\* sigma is var_num / var_den; np.mean of no value and np.std(ddof=1) of
\* fewer than two values are NaN
NormalDistribution(win_rates) ==
    LET n == Len(win_rates)
        total == SumSeq(win_rates)
        dev == [i \in 1..n |-> (n * win_rates[i] - total) * (n * win_rates[i] - total)]
    IN  [mu_nan |-> n = 0, mu_num |-> total, mu_den |-> n,
         sigma_nan |-> n < 2, var_num |-> SumSeq(dev), var_den |-> n * n * (n - 1)]

\* __main__.py lines 200-210, grading.py lines 64-74
get_normal_distribution(rankings) == NormalDistribution(CollectWinRates(rankings))

\* 100 * Phi(k / 4), rounded down, for k = 0 .. 12
PhiTable == <<50, 59, 69, 77, 84, 89, 93, 95, 97, 98, 99, 99, 99>>

\* NormalDistribution.cdf, in hundredths: Phi((x - mu) / sigma), read off
\* PhiTable at the quarter of a deviation below |x - mu| / sigma.  NaN when mu
\* or sigma is NaN; a sigma of 0 has no quotient (kind "undefined")
cdf(nd, x) ==
    IF nd.mu_nan \/ nd.sigma_nan THEN NaN
    ELSE IF nd.var_num = 0 THEN [kind |-> "undefined", val |-> 0]
    ELSE LET d == x * nd.mu_den - nd.mu_num
             num == d * d * nd.var_den
             den == nd.mu_den * nd.mu_den * nd.var_num
             k == CHOOSE j \in 0..12 :
                     /\ 16 * num >= j * j * den
                     /\ (j < 12 => 16 * num < (j + 1) * (j + 1) * den)
         IN  IF d >= 0 THEN Float(PhiTable[k + 1]) ELSE Float(100 - PhiTable[k + 1])

\* get_graded_rankings lines 259-261: the loop over rankings["types"]
RECURSIVE BackfillColor(_, _, _)
BackfillColor(color, types, order) ==
    IF types = <<>> THEN color
    ELSE BackfillColor(land_string_to_colors(Head(types), order), Tail(types), order)

\* Graded storing the score under the key of the raw win rate
GradedOverwritingRate(r, color, score, grade, with_grade) ==
    IF with_grade
    THEN [mtga_id |-> r.mtga_id, color |-> color, types |-> r.types,
          ever_drawn_win_rate |-> score,
          ever_drawn_score |-> score, ever_drawn_grade |-> grade]
    ELSE [mtga_id |-> r.mtga_id, color |-> color, types |-> r.types,
          ever_drawn_win_rate |-> score,
          ever_drawn_score |-> score]

\* the dict of a card with the keys the loop body has set
Graded(r, color, score, grade, with_grade) ==
    IF with_grade
    THEN [mtga_id |-> r.mtga_id, color |-> color, types |-> r.types,
          ever_drawn_win_rate |-> r.ever_drawn_win_rate,
          ever_drawn_score |-> score, ever_drawn_grade |-> grade]
    ELSE [mtga_id |-> r.mtga_id, color |-> color, types |-> r.types,
          ever_drawn_win_rate |-> r.ever_drawn_win_rate,
          ever_drawn_score |-> score]

\* get_graded_rankings lines 256-265 (seventeen_lands.py lines 59-66): the
\* loop over the cards from card i on; zero_sigma is what cdf does for a
\* deviation of 0, "raise" or "nan".  The result is the dicts as the loop
\* leaves them and the exception that ended it
RECURSIVE GradeFrom(_, _, _, _, _, _)
GradeFrom(recs, i, nd, order, with_grade, zero_sigma) ==
    IF i > Len(recs) THEN [recs |-> recs, err |-> ""]
    ELSE LET r == recs[i]
             color == IF r.color = <<>> /\ has_card_type(r, "Land")
                      THEN BackfillColor(r.color, r.types, order)
                      ELSE r.color
             p == IF Truthy(r.ever_drawn_win_rate)
                  THEN cdf(nd, r.ever_drawn_win_rate.val)
                  ELSE None
         IN  IF p.kind = "undefined" /\ zero_sigma = "raise"
             THEN [recs |-> [recs EXCEPT ![i] = Graded(r, color, None, "None", with_grade)],
                   err |-> "ZeroDivisionError"]
             ELSE LET score == IF p.kind = "undefined" THEN NaN ELSE p
                      grade == IF Truthy(r.ever_drawn_win_rate)
                               THEN get_grade_for_score(score, 1)
                               ELSE "None"
                  IN  GradeFrom([recs EXCEPT ![i] = Graded(r, color, score, grade, with_grade)],
                                i + 1, nd, order, with_grade, zero_sigma)

GradeInit ==
    /\ provider_records = <<>>
    /\ eoe_rankings = <<>>
    /\ rankings_by_arena_id = <<>>
    /\ normal_distribution = NormalDistribution(<<>>)
    /\ land_count \in {17, 38}
    /\ scores_by_color_pair = <<>>
    /\ score_by_color_pair_sorted = <<>>
    /\ gpc = "fetched"
    /\ gerror = ""

\* pull_17lands returns a list with one more record (the ids of a response
\* are distinct; the order of the list plays no part)
AddRecord ==
    /\ gpc = "fetched"
    /\ Len(eoe_rankings) < MaxRecords
    /\ \E id \in FeedIds, rate \in WinRates :
          /\ \A i \in 1..Len(eoe_rankings) : eoe_rankings[i].mtga_id < id
          /\ eoe_rankings' = Append(eoe_rankings, ProviderRecord(id, rate))
          /\ provider_records' = Append(provider_records, ProviderRecord(id, rate))
    /\ UNCHANGED <<rankings_by_arena_id, normal_distribution, land_count,
                   scores_by_color_pair, score_by_color_pair_sorted, gpc, gerror>>
    /\ UNCHANGED <<tailVars, partVars, cacheVars, scaleVars, followVars>>

\* get_graded_rankings: lines 246-267 of __main__.py (with_grade) and lines
\* 49-68 of seventeen_lands.py (no grade key)
Enrich(with_grade) ==
    /\ gpc = "fetched"
    /\ \E order \in HashOrders, zero_sigma \in {"raise", "nan"} :
          LET nd == get_normal_distribution(eoe_rankings)
              res == GradeFrom(eoe_rankings, 1, nd, order, with_grade, zero_sigma)
          IN  /\ rankings_by_arena_id' =
                     [id \in {eoe_rankings[i].mtga_id : i \in 1..Len(eoe_rankings)} |->
                          CHOOSE i \in 1..Len(eoe_rankings) : eoe_rankings[i].mtga_id = id]
              /\ normal_distribution' = nd
              /\ eoe_rankings' = res.recs
              /\ gerror' = res.err
              /\ gpc' = IF res.err = "" THEN "graded" ELSE "raised"
    /\ UNCHANGED <<provider_records, land_count, scores_by_color_pair,
                   score_by_color_pair_sorted>>
    /\ UNCHANGED <<tailVars, partVars, cacheVars, scaleVars, followVars>>

GetGradedRankings == Enrich(TRUE)

GetGradedRankings17 == Enrich(FALSE)

\* follow_log.py line 176 (mtga_helper.mtg.LIMITED_DECK_SIZE)
LIMITED_DECK_SIZE == 40

\* get_top_scores lines 95-98: the scores that pass `if ranking[score_key]`
RECURSIVE CollectScores(_)
CollectScores(rankings) ==
    IF rankings = <<>> THEN <<>>
    ELSE IF Truthy(Head(rankings).ever_drawn_score)
         THEN <<Head(rankings).ever_drawn_score>> \o CollectScores(Tail(rankings))
         ELSE CollectScores(Tail(rankings))

\* a < b for floats; false when either is NaN
FloatLess(a, b) == a.kind = "float" /\ b.kind = "float" /\ a.val < b.val

\* sorted(scores, reverse=True): stable, by < alone
RECURSIVE InsertDescending(_, _)
InsertDescending(sorted, x) ==
    IF sorted = <<>> THEN <<x>>
    ELSE IF FloatLess(Head(sorted), x) THEN <<x>> \o sorted
         ELSE <<Head(sorted)>> \o InsertDescending(Tail(sorted), x)

RECURSIVE SortDescending(_)
SortDescending(scores) ==
    IF scores = <<>> THEN <<>>
    ELSE InsertDescending(SortDescending(SubSeq(scores, 1, Len(scores) - 1)),
                          scores[Len(scores)])

\* np.mean of a non-empty list of floats: the fraction num / den, or NaN
Mean(scores) ==
    IF \E i \in 1..Len(scores) : scores[i].kind = "nan"
    THEN [kind |-> "nan", num |-> 0, den |-> 1]
    ELSE [kind |-> "float", num |-> SumSeq([i \in 1..Len(scores) |-> scores[i].val]),
          den |-> Len(scores)]

\* sorted_scores[:card_count] for card_count >= 0
Slice(xs, card_count) == SubSeq(xs, 1, IF card_count < Len(xs) THEN card_count ELSE Len(xs))

\* get_top_scores failing as soon as card_count exceeds the scores there are
get_top_scores_exact(rankings, card_count) ==
    LET sorted_scores == SortDescending(CollectScores(rankings))
    IN  IF card_count > Len(sorted_scores) \/ sorted_scores = <<>>
        THEN [err |-> "IndexError", triple |-> <<>>]
        ELSE LET top_scores == Slice(sorted_scores, card_count)
             IN  [err |-> "",
                  triple |-> <<Mean(top_scores), top_scores[1], top_scores[Len(top_scores)]>>]

\* __main__.py lines 94-104: top_scores[-1] of an empty list is an IndexError
get_top_scores(rankings, card_count) ==
    LET sorted_scores == SortDescending(CollectScores(rankings))
        top_scores == Slice(sorted_scores, card_count)
    IN  IF top_scores = <<>> THEN [err |-> "IndexError", triple |-> <<>>]
        ELSE [err |-> "",
              triple |-> <<Mean(top_scores), top_scores[1], top_scores[Len(top_scores)]>>]

\* a < b for the means of two slices
MeanLess(a, b) ==
    a.kind = "float" /\ b.kind = "float" /\ a.num * b.den < b.num * a.den

\* a == b for two float objects that are not the same object
FloatEqual(a, b) == a.kind = "float" /\ b.kind = "float" /\ a.val = b.val

\* (mean, best, worst) < (mean, best, worst) as Python compares tuples: the
\* first items that are not equal decide
TripleLess(a, b) ==
    IF ~(a[1].kind = "float" /\ b[1].kind = "float" /\ a[1].num * b[1].den = b[1].num * a[1].den)
    THEN MeanLess(a[1], b[1])
    ELSE IF ~FloatEqual(a[2], b[2]) THEN FloatLess(a[2], b[2])
    ELSE IF ~FloatEqual(a[3], b[3]) THEN FloatLess(a[3], b[3])
    ELSE FALSE

\* line 148: sorted(..., key=lambda item: item[-1], reverse=True), one item
RECURSIVE InsertItem(_, _)
InsertItem(sorted, item) ==
    IF sorted = <<>> THEN <<item>>
    ELSE IF TripleLess(Head(sorted)[2], item[2]) THEN <<item>> \o sorted
         ELSE <<Head(sorted)>> \o InsertItem(Tail(sorted), item)

RECURSIVE SortItems(_)
SortItems(items) ==
    IF items = <<>> THEN <<>>
    ELSE InsertItem(SortItems(SubSeq(items, 1, Len(items) - 1)), items[Len(items)])

\* split_pool_by_color_pair (__main__.py lines 83-90) over the graded
\* rankings, include_lands left at False: the arena ids of one bucket
RECURSIVE GradedBucket(_, _, _, _)
GradedBucket(recs, by_id, color_pair, cards) ==
    IF cards = <<>> THEN <<>>
    ELSE LET ranking == recs[by_id[Head(cards)]]
             rest == GradedBucket(recs, by_id, color_pair, Tail(cards))
         IN  IF has_card_type(ranking, "Land") THEN rest
             ELSE IF are_card_colors_in_pair(ranking.color, color_pair)
                  THEN <<Head(cards)>> \o rest
                  ELSE rest

\* print_sealed_course_info lines 144-146: the loop over the pairs from pair i
\* on; the dict as the loop leaves it and the exception that ended it
RECURSIVE ScoreFrom(_, _, _, _, _, _)
ScoreFrom(recs, by_id, split, i, card_count, acc) ==
    IF i > Len(COLOR_PAIRS) THEN [items |-> acc, err |-> ""]
    ELSE LET color_pair == COLOR_PAIRS[i]
             rankings == [k \in 1..Len(split[color_pair]) |-> recs[by_id[split[color_pair][k]]]]
             res == get_top_scores(rankings, card_count)
         IN  IF res.err # "" THEN [items |-> acc, err |-> res.err]
             ELSE ScoreFrom(recs, by_id, split, i + 1, card_count,
                            Append(acc, <<color_pair, res.triple>>))

\* the course's CardPool: one more card
AddPoolCard ==
    /\ gpc = "graded"
    /\ Len(pool) < MaxPool
    /\ \E arena_id \in PoolIds : pool' = Append(pool, arena_id)
    /\ UNCHANGED <<include_lands, buckets, ppc>>
    /\ UNCHANGED <<tailVars, gradeVars, cacheVars, scaleVars, followVars>>

\* print_sealed_course_info, __main__.py lines 133-148
PrintSealedCourseInfo ==
    /\ gpc = "graded"
    /\ LET target_non_land_count == LIMITED_DECK_SIZE - land_count
       IN  IF \E k \in 1..Len(pool) : pool[k] \notin DOMAIN rankings_by_arena_id
           THEN /\ gpc' = "raised"
                /\ gerror' = "KeyError"
                /\ UNCHANGED <<buckets, scores_by_color_pair, score_by_color_pair_sorted>>
           ELSE LET split == [color_pair \in PairKeys |->
                                 GradedBucket(eoe_rankings, rankings_by_arena_id,
                                              color_pair, pool)]
                    res == ScoreFrom(eoe_rankings, rankings_by_arena_id, split, 1,
                                     target_non_land_count, <<>>)
                IN  /\ buckets' = split
                    /\ scores_by_color_pair' = res.items
                    /\ gerror' = res.err
                    /\ IF res.err = ""
                       THEN /\ score_by_color_pair_sorted' = SortItems(res.items)
                            /\ gpc' = "printed"
                       ELSE /\ score_by_color_pair_sorted' = <<>>
                            /\ gpc' = "raised"
    /\ UNCHANGED <<provider_records, eoe_rankings, rankings_by_arena_id,
                   normal_distribution, land_count>>
    /\ UNCHANGED <<pool, include_lands, ppc>>
    /\ UNCHANGED <<tailVars, cacheVars, scaleVars, followVars>>

GradeNext ==
    \/ AddRecord
    \/ GetGradedRankings
    \/ GetGradedRankings17
    \/ AddPoolCard
    \/ PrintSealedCourseInfo

GradeSpecInit == TailInit /\ PartIdle /\ GradeInit /\ CacheIdle /\ ScaleIdle /\ FollowIdle

GradeSpec == GradeSpecInit /\ [][GradeNext]_vars

----------------------------------------------------------------------------
(* Properties of the enrichment *)

\* get_graded_rankings has returned
Enriched == gpc \in {"graded", "printed"} \/ (gpc = "raised" /\ gerror \in {"KeyError", "IndexError"})

HasScore(r) == r.ever_drawn_score # None

HasGrade(r) == "ever_drawn_grade" \in DOMAIN r /\ r.ever_drawn_grade # "None"

\* the percentile of a raw value under the fitted model; no number to compare
\* with when the deviation is 0
IsPercentile(score, value) ==
    LET p == cdf(normal_distribution, value)
    IN  IF p.kind = "undefined" THEN score # None ELSE score = p

\* C11 as stated: after enrichment a record with a non-null raw value, 0.0
\* included, has the percentile of the value as score and the grade of that
\* score; a record with a null raw value has neither; no record has one of
\* score and grade without the other.
C11_ScoredIffRated ==
    Enriched =>
        \A i \in 1..Len(eoe_rankings) :
            LET r == eoe_rankings[i]
                rate == r.ever_drawn_win_rate
            IN  /\ rate # None =>
                      /\ IsPercentile(r.ever_drawn_score, rate.val)
                      /\ HasGrade(r)
                      /\ r.ever_drawn_grade = get_grade_for_score(r.ever_drawn_score, 1)
                /\ rate = None => ~HasScore(r) /\ ~HasGrade(r)
                /\ HasScore(r) <=> HasGrade(r)

\* C12 as stated: after enrichment every provider record is as the provider
\* returned it.
C12_ProviderRecordsUntouched ==
    Enriched => eoe_rankings = provider_records

\* C12 amended: enrichment works on the provider records themselves: the
\* mapping holds those very records by their id; each keeps its id, type line
\* and raw win rate, gains a score key, and keeps its color identity unless it
\* is a land without colors.
C12_ProviderRecordsAnnotated ==
    Enriched =>
        /\ Len(eoe_rankings) = Len(provider_records)
        /\ DOMAIN rankings_by_arena_id =
              {provider_records[i].mtga_id : i \in 1..Len(provider_records)}
        /\ \A i \in 1..Len(eoe_rankings) :
              LET r == eoe_rankings[i]
                  before == provider_records[i]
              IN  /\ rankings_by_arena_id[before.mtga_id] = i
                  /\ r.mtga_id = before.mtga_id
                  /\ r.types = before.types
                  /\ r.ever_drawn_win_rate = before.ever_drawn_win_rate
                  /\ "ever_drawn_score" \in DOMAIN r
                  /\ "ever_drawn_score" \notin DOMAIN before
                  /\ (before.color # <<>> \/ ~has_card_type(before, "Land"))
                        => r.color = before.color

C12_Witness ==
    /\ gpc = "graded"
    /\ Len(provider_records) = 2
    /\ provider_records[1].mtga_id = 1
    /\ provider_records[1].ever_drawn_win_rate = Float(50)
    /\ provider_records[2].ever_drawn_win_rate = Float(58)
    /\ eoe_rankings[1].ever_drawn_score = Float(31)
    /\ eoe_rankings[1].ever_drawn_win_rate = Float(50)

\* the color symbols of the basic-land words anywhere in a type line
LandSymbols(types) ==
    LET AllWords == UNION {{types[i][k] : k \in 1..Len(types[i])} : i \in 1..Len(types)}
    IN  (IF "Plains" \in AllWords THEN {"W"} ELSE {}) \cup
        (IF "Island" \in AllWords THEN {"U"} ELSE {}) \cup
        (IF "Swamp" \in AllWords THEN {"B"} ELSE {}) \cup
        (IF "Mountain" \in AllWords THEN {"R"} ELSE {}) \cup
        (IF "Forest" \in AllWords THEN {"G"} ELSE {})

\* C13 as stated: a record without colors whose type line contains "Land" has,
\* after enrichment, the symbols of all the basic-land words of its whole type
\* line as color identity; every other record keeps its color identity.
C13_BackfillFromWholeTypeLine ==
    Enriched =>
        \A i \in 1..Len(eoe_rankings) :
            LET before == provider_records[i]
            IN  IF before.color = <<>> /\ has_card_type(before, "Land")
                THEN ColorSet(eoe_rankings[i].color) = LandSymbols(before.types)
                ELSE eoe_rankings[i].color = before.color

\* the non-null raw values of a response
NonNullCount(recs) == Cardinality({i \in 1..Len(recs) : recs[i].ever_drawn_win_rate # None})

\* C15 as stated: fitting the model from fewer than 2 non-null samples fails
\* with InsufficientSampleError and yields no model.
C15_TooFewSamplesFail ==
    (gpc # "fetched" /\ NonNullCount(provider_records) < 2)
        => gerror = "InsufficientSampleError"

----------------------------------------------------------------------------
(* Properties of the ranking of the color pairs *)

\* print_sealed_course_info has split the pool and gone through the pairs
PairsScored == gpc \in {"printed", "raised"} /\ gerror \in {"", "IndexError"}

\* the graded rankings of the cards in the bucket of a pair
BucketRankings(color_pair) ==
    [k \in 1..Len(buckets[color_pair]) |->
        eoe_rankings[rankings_by_arena_id[buckets[color_pair][k]]]]

\* the non-null scores in the bucket of a pair
NonNullScores(color_pair) ==
    SelectSeq([k \in 1..Len(BucketRankings(color_pair)) |->
                  BucketRankings(color_pair)[k].ever_drawn_score],
              LAMBDA x : x # None)

\* C14 as stated: a pair without a scored card makes top_scores fail with
\* EmptySampleError, an error of its own kind, and the ranking of the 10 pairs
\* guards against it or handles it: print_sealed_course_info completes.
C14_EmptyPairHandled ==
    (PairsScored /\ \E p \in PairKeys : NonNullScores(p) = <<>>)
        => /\ gerror \in {"", "EmptySampleError"}
           /\ gpc = "printed"

\* the top-n mean of the pair displayed at place i
MeanAt(i) == score_by_color_pair_sorted[i][2][1]

\* a >= b for two means; false when either is NaN
MeanGreaterEqual(a, b) ==
    a.kind = "float" /\ b.kind = "float" /\ a.num * b.den >= b.num * a.den

\* C17 as stated: the 10 pairs are displayed by descending mean of their top-n
\* slice, n = 40 - land_count: of any two pairs the earlier one has a mean
\* greater than or equal to the later one's.
C17_DisplayedByDescendingMean ==
    gpc = "printed" =>
        /\ {score_by_color_pair_sorted[i][1] : i \in 1..Len(score_by_color_pair_sorted)}
              = PairKeys
        /\ Len(score_by_color_pair_sorted) = 10
        /\ \A i \in 1..10 :
              score_by_color_pair_sorted[i][2] =
                  get_top_scores(BucketRankings(score_by_color_pair_sorted[i][1]),
                                 40 - land_count).triple
        /\ \A i, j \in 1..10 : i < j => MeanGreaterEqual(MeanAt(i), MeanAt(j))

\* C18: for a pair with k >= 1 non-null scores and n = 40 - land_count > k,
\* top_scores does not fail and returns the triple it returns for n = k: the
\* mean, the greatest and the least of all k scores.
C18_LargeCountTakesAll ==
    PairsScored =>
        \A i \in 1..Len(COLOR_PAIRS) :
            LET p == COLOR_PAIRS[i]
                all == SortDescending(NonNullScores(p))
                k == Len(all)
            IN  (k >= 1 /\ 40 - land_count > k /\ i <= Len(scores_by_color_pair) + 1)
                   => /\ i <= Len(scores_by_color_pair)
                      /\ scores_by_color_pair[i][1] = p
                      /\ scores_by_color_pair[i][2] = get_top_scores(BucketRankings(p), k).triple
                      /\ scores_by_color_pair[i][2] = <<Mean(all), all[1], all[k]>>

C18_Witness ==
    /\ gpc = "printed"
    /\ land_count = 17
    /\ Len(NonNullScores(<<"W", "U">>)) = 2
    /\ scores_by_color_pair[1][1] = <<"W", "U">>
    /\ scores_by_color_pair[1][2][1].kind = "float"
    /\ scores_by_color_pair[1][2][2].kind = "float"
    /\ scores_by_color_pair[1][2][2] # scores_by_color_pair[1][2][3]

----------------------------------------------------------------------------
(* The grade scale on its own: get_grade_for_score over the scores 0 .. 100 *)

\* the whole parts of the scores in [0, 100]
Scores == 0..100

\* one call of get_grade_for_score (color_pair_stats_row, get_graded_rankings)
GradeScore ==
    /\ \E s \in Scores :
          LET call == [score |-> Float(s), grade |-> get_grade_for_score(Float(s), 1)]
          IN  grade_calls' = IF grade_calls = <<>> THEN <<call>>
                             ELSE <<grade_calls[Len(grade_calls)], call>>
    /\ UNCHANGED <<tailVars, partVars, gradeVars, cacheVars, followVars>>

ScaleNext == GradeScore

ScaleInit == TailInit /\ PartIdle /\ GradeIdle /\ CacheIdle /\ ScaleIdle /\ FollowIdle

ScaleSpec == ScaleInit /\ [][ScaleNext]_vars

\* the place of a grade on the scale, 1 for the best
GradeRank(grade) == CHOOSE i \in 1..Len(GRADE_THRESHOLDS) : GRADE_THRESHOLDS[i][1] = grade

\* C16: the scale has 13 grades with strictly descending thresholds, the worst
\* at 0; every score in [0,100] gets the best grade whose threshold is <= the
\* score, and of two scores the greater or equal one gets a grade that is equal
\* or better.
C16_GradeTotalMonotonic ==
    /\ Len(GRADE_THRESHOLDS) = 13
    /\ Cardinality({GRADE_THRESHOLDS[i][1] : i \in 1..13}) = 13
    /\ \A i \in 1..12 : GRADE_THRESHOLDS[i][2] > GRADE_THRESHOLDS[i + 1][2]
    /\ GRADE_THRESHOLDS[13] = <<"F", 0>>
    /\ \A c \in 1..Len(grade_calls) :
          LET s == grade_calls[c].score.val
              fit == {i \in 1..13 : GRADE_THRESHOLDS[i][2] <= s}
          IN  /\ fit # {}
              /\ \E i \in fit :
                    /\ \A j \in fit : i <= j
                    /\ grade_calls[c].grade = GRADE_THRESHOLDS[i][1]
    /\ \A c, d \in 1..Len(grade_calls) :
          grade_calls[c].score.val >= grade_calls[d].score.val
              => GradeRank(grade_calls[c].grade) <= GradeRank(grade_calls[d].grade)

C16_Witness ==
    /\ Len(grade_calls) = 2
    /\ grade_calls[1] = [score |-> Float(99), grade |-> "A+"]
    /\ grade_calls[2] = [score |-> Float(4), grade |-> "F"]

----------------------------------------------------------------------------
(* The statistics query and its cache: pull_17lands (__main__.py lines     *)
(* 178-198), query_17lands (seventeen_lands.py lines 21-41)                *)

\* calls of pull_17lands in one run
MaxQueries == 3

\* what a query may be made with: expansion, format, start and end date
Expansions == {"eoe", "fin"}
EndDates == {"2025-08-10", "2025-08-11"}

\* urlencode(params): key=value joined by &, in the order of the dict
urlencode(expansion, format_name, start, end) ==
    <<"expansion", "=", expansion, "&", "format", "=", format_name, "&",
      "start_date", "=", start, "&", "end_date", "=", end>>

\* CACHE_DIR_17LANDS / f"{params_str}.json"
CacheFile(params_str) == params_str \o <<".json">>

\* cache_file.is_file()
is_file(dir, name) == \E f \in dir : f.name = name

\* the text of a file there is
ReadText(dir, name) == (CHOOSE f \in dir : f.name = name).text

\* cache_file.open("w") and f.write(text)
WriteText(dir, name, text) ==
    {f \in dir : f.name # name} \cup {[name |-> name, text |-> text]}

\* what requests.get may come to: no connection, an error status, a response
\* with a JSON body, a response whose body is no JSON
Responses == {"ConnectionError", "HTTPError", "json", "garbage"}

\* pull_17lands writing the cache file before res.raise_for_status()
pull_17lands_write_first(dir, params_str, response) ==
    LET cache_file == CacheFile(params_str)
    IN  IF ~is_file(dir, cache_file)
        THEN IF response = "ConnectionError"
             THEN [files |-> dir, fetched |-> TRUE, outcome |-> "ConnectionError",
                   result |-> ""]
             ELSE IF response = "HTTPError"
             THEN [files |-> WriteText(dir, cache_file, "garbage"), fetched |-> TRUE,
                   outcome |-> "HTTPError", result |-> ""]
             ELSE LET written == WriteText(dir, cache_file, response)
                  IN  IF response = "json"
                      THEN [files |-> written, fetched |-> TRUE, outcome |-> "returned",
                            result |-> "json"]
                      ELSE [files |-> written, fetched |-> TRUE,
                            outcome |-> "JSONDecodeError", result |-> ""]
        ELSE IF ReadText(dir, cache_file) = "json"
             THEN [files |-> dir, fetched |-> FALSE, outcome |-> "returned",
                   result |-> "json"]
             ELSE [files |-> dir, fetched |-> FALSE, outcome |-> "JSONDecodeError",
                   result |-> ""]

\* __main__.py lines 186-198: the cache directory after the call, whether
\* requests.get was called, and how the call ended
pull_17lands(dir, params_str, response) ==
    LET cache_file == CacheFile(params_str)
    IN  IF ~is_file(dir, cache_file)
        THEN IF response \in {"ConnectionError", "HTTPError"}
             THEN [files |-> dir, fetched |-> TRUE, outcome |-> response, result |-> ""]
             ELSE LET written == WriteText(dir, cache_file, response)
                  IN  IF response = "json"
                      THEN [files |-> written, fetched |-> TRUE, outcome |-> "returned",
                            result |-> "json"]
                      ELSE [files |-> written, fetched |-> TRUE,
                            outcome |-> "JSONDecodeError", result |-> ""]
        ELSE IF ReadText(dir, cache_file) = "json"
             THEN [files |-> dir, fetched |-> FALSE, outcome |-> "returned",
                   result |-> "json"]
             ELSE [files |-> dir, fetched |-> FALSE, outcome |-> "JSONDecodeError",
                   result |-> ""]

\* one call of pull_17lands by get_graded_rankings
Query ==
    /\ last_query.n < MaxQueries
    /\ \E expansion \in Expansions, end \in EndDates, response \in Responses :
          LET params_str == urlencode(expansion, "PremierDraft", "2025-07-29", end)
              res == pull_17lands(cache_files, params_str, response)
          IN  /\ cache_files' = res.files
              /\ fetches' = IF res.fetched THEN Append(fetches, params_str) ELSE fetches
              /\ completed' = IF res.outcome = "returned"
                              THEN completed \cup {params_str} ELSE completed
              /\ last_query' = [n |-> last_query.n + 1, params_str |-> params_str,
                                fetched |-> res.fetched, outcome |-> res.outcome,
                                result |-> res.result,
                                was_completed |-> params_str \in completed,
                                files_before |-> cache_files]
    /\ UNCHANGED <<tailVars, partVars, gradeVars, scaleVars, followVars>>

CacheNext == Query

CacheInit == TailInit /\ PartIdle /\ GradeIdle /\ CacheIdle /\ ScaleIdle /\ FollowIdle

CacheSpec == CacheInit /\ [][CacheNext]_vars

\* C19: a query made with parameters a query has completed with before in this
\* run is served from the cache, with no requests.get; a query whose fetch
\* fails (no connection, error status) leaves the cache directory as it was,
\* with no file for its parameters; the cache entry of a completed query stays.
C19_CompletedQueryServedFromCache ==
    /\ last_query.was_completed =>
          /\ ~last_query.fetched
          /\ last_query.outcome = "returned"
          /\ cache_files = last_query.files_before
    /\ (last_query.fetched /\ last_query.outcome \in {"ConnectionError", "HTTPError"}) =>
          /\ cache_files = last_query.files_before
          /\ ~is_file(cache_files, CacheFile(last_query.params_str))
    /\ \A q \in completed :
          /\ is_file(cache_files, CacheFile(q))
          /\ ReadText(cache_files, CacheFile(q)) = "json"

C19_Witness ==
    /\ last_query.n = 3
    /\ last_query.was_completed
    /\ ~last_query.fetched
    /\ Len(fetches) = 2
    /\ fetches[2] = last_query.params_str

----------------------------------------------------------------------------
(* follow at the granularity of characters: the writer is another process  *)
(* and appends characters, a line is complete once its newline is written. *)

\* the most characters the writer writes in a run
MaxChars == 4

\* the characters the writer can write
Chars == {"a", "b", " ", "\n"}

\* str.strip() without argument: whitespace includes the newline
StripSet == {" ", "\n"}

RECURSIVE lstrip(_)
lstrip(s) == IF s # <<>> /\ Head(s) \in StripSet THEN lstrip(Tail(s)) ELSE s

RECURSIVE rstrip(_)
rstrip(s) ==
    IF s # <<>> /\ s[Len(s)] \in StripSet THEN rstrip(SubSeq(s, 1, Len(s) - 1)) ELSE s

strip(s) == rstrip(lstrip(s))

\* index of the first newline of c after position off, 0 when there is none
NewlineAfter(c, off) ==
    IF \E j \in (off + 1)..Len(c) : c[j] = "\n"
    THEN CHOOSE j \in (off + 1)..Len(c) :
            /\ c[j] = "\n"
            /\ \A k \in (off + 1)..(j - 1) : c[k] # "\n"
    ELSE 0

\* file.readline() of a text file at position off: through the next newline,
\* or what is left up to the end of the file when no newline follows; the
\* empty string at the end of the file
readline(c, off) ==
    LET j == NewlineAfter(c, off)
    IN  IF j = 0 THEN SubSeq(c, off + 1, Len(c)) ELSE SubSeq(c, off + 1, j)

TotalChars ==
    LET RECURSIVE Sum(_)
        Sum(i) == IF i > Len(content) THEN 0 ELSE Len(content[i]) + Sum(i + 1)
    IN  Sum(1)

\* follow line 22: the log exists, is empty and open at position 0
FollowStart ==
    /\ content = <<<<>>>>
    /\ offset = 0
    /\ yields = <<>>

(* the log writer *)

Write(c) ==
    /\ status = "running"
    /\ path # 0
    /\ TotalChars < MaxChars
    /\ content' = [content EXCEPT ![path] = Append(@, c)]
    /\ UNCHANGED <<offset, yields>>
    /\ UNCHANGED <<tailVars, partVars, gradeVars, cacheVars, scaleVars>>

WriteChar == \E c \in Chars : Write(c)

\* a new file is renamed over the log path
RotateLog ==
    /\ status = "running"
    /\ path # 0
    /\ Len(content) <= MaxRotations
    /\ content' = Append(content, <<>>)
    /\ path' = Len(content) + 1
    /\ UNCHANGED <<offset, yields>>
    /\ UNCHANGED <<files, fIno, fPos, fObj, openObjs, current_inode, inode, pc, line,
                   yielded, next_line_event, prev_event, calls, logs, flogs, status, error>>
    /\ UNCHANGED <<partVars, gradeVars, cacheVars, scaleVars>>

\* the log is moved away or deleted
UnlinkLog ==
    /\ status = "running"
    /\ path # 0
    /\ Len(content) <= MaxRotations
    /\ path' = 0
    /\ UNCHANGED <<files, fIno, fPos, fObj, openObjs, current_inode, inode, pc, line,
                   yielded, next_line_event, prev_event, calls, logs, flogs, status, error>>
    /\ UNCHANGED <<partVars, gradeVars, cacheVars, scaleVars, followVars>>

\* a new log is created at the path
RecreateLog ==
    /\ status = "running"
    /\ path = 0
    /\ content' = Append(content, <<>>)
    /\ path' = Len(content) + 1
    /\ UNCHANGED <<offset, yields>>
    /\ UNCHANGED <<files, fIno, fPos, fObj, openObjs, current_inode, inode, pc, line,
                   yielded, next_line_event, prev_event, calls, logs, flogs, status, error>>
    /\ UNCHANGED <<partVars, gradeVars, cacheVars, scaleVars>>

(* follow *)

\* lines 25-26 and 38: file.readline(); a non-empty result is yielded stripped,
\* and the consumer resumes the generator
FollowReadline ==
    /\ status = "running"
    /\ pc = "readline"
    /\ LET r == readline(content[fIno], offset) IN
       IF r # <<>>
       THEN /\ yields' = Append(yields, [ino |-> fIno, start |-> offset, raw |-> r,
                                         value |-> strip(r)])
            /\ offset' = offset + Len(r)
            /\ UNCHANGED pc
       ELSE /\ pc' = "stat"
            /\ UNCHANGED <<offset, yields>>
    /\ UNCHANGED content
    /\ UNCHANGED <<files, path, fIno, fPos, fObj, openObjs, current_inode, inode, line,
                   yielded, next_line_event, prev_event, calls, logs, flogs, status, error>>
    /\ UNCHANGED <<partVars, gradeVars, cacheVars, scaleVars>>

\* lines 28-30: os.stat(file.name) and the comparison
FollowStat ==
    /\ status = "running"
    /\ pc = "stat"
    /\ IF path = 0
       THEN /\ Leave(openObjs, "FileNotFoundError")
            /\ UNCHANGED <<inode, pc, flogs>>
       ELSE /\ inode' = path
            /\ IF path # current_inode
               THEN pc' = "reopen" /\ flogs' = <<"info: log file recreated">>
               ELSE pc' = "sleep" /\ flogs' = <<>>
            /\ UNCHANGED <<openObjs, status, error>>
    /\ UNCHANGED <<files, path, fIno, fPos, fObj, current_inode, line, yielded,
                   next_line_event, prev_event, calls, logs>>
    /\ UNCHANGED <<partVars, gradeVars, cacheVars, scaleVars, followVars>>

\* lines 31-34: file.close(), open(file.name), current_inode = inode
FollowReopen ==
    /\ status = "running"
    /\ pc = "reopen"
    /\ IF path = 0
       THEN /\ Leave(openObjs \ {fObj}, "FileNotFoundError")
            /\ UNCHANGED <<fIno, fObj, current_inode, pc, offset>>
       ELSE /\ openObjs' = (openObjs \ {fObj}) \cup {fObj + 1}
            /\ fObj' = fObj + 1
            /\ fIno' = path
            /\ offset' = 0
            /\ current_inode' = inode
            /\ pc' = "readline"
            /\ UNCHANGED <<status, error>>
    /\ flogs' = <<>>
    /\ UNCHANGED <<content, yields>>
    /\ UNCHANGED <<files, path, fPos, inode, line, yielded, next_line_event, prev_event,
                   calls, logs>>
    /\ UNCHANGED <<partVars, gradeVars, cacheVars, scaleVars>>

\* lines 36-37: time.sleep(0.1)
FollowSleep ==
    /\ status = "running"
    /\ pc = "sleep"
    /\ pc' = "readline"
    /\ UNCHANGED <<files, path, fIno, fPos, fObj, openObjs, current_inode, inode, line,
                   yielded, next_line_event, prev_event, calls, logs, flogs, status, error>>
    /\ UNCHANGED <<partVars, gradeVars, cacheVars, scaleVars, followVars>>

FollowNext ==
    \/ WriteChar
    \/ RotateLog
    \/ UnlinkLog
    \/ RecreateLog
    \/ FollowReadline
    \/ FollowStat
    \/ FollowReopen
    \/ FollowSleep

FollowInit == TailInit /\ PartIdle /\ GradeIdle /\ CacheIdle /\ ScaleIdle /\ FollowStart

FollowSpec == FollowInit /\ [][FollowNext]_vars

----------------------------------------------------------------------------
(* Properties of follow *)

\* the complete lines of c after position off, each with its newline
RECURSIVE CompleteLines(_, _)
CompleteLines(c, off) ==
    LET j == NewlineAfter(c, off)
    IN  IF j = 0 THEN <<>> ELSE <<SubSeq(c, off + 1, j)>> \o CompleteLines(c, j)

\* the log was never replaced, removed or recreated
NoRotation == Len(content) = 1 /\ path = 1

\* C21 as stated: follow hands every line to the parser once and in file order.
\* With no rotation the strings yielded so far are the first complete lines of
\* the file, in order, each stripped; consecutive reads of a file are
\* contiguous, so that nothing is read twice or skipped; and the first read of
\* a file starts at its first character.
C21_YieldedIsPrefixOfWritten ==
    /\ NoRotation =>
          LET written == CompleteLines(content[1], 0) IN
          /\ Len(yields) <= Len(written)
          /\ \A i \in 1..Len(yields) : yields[i].value = strip(written[i])
    /\ \A i \in 1..Len(yields) :
          IF i > 1 /\ yields[i - 1].ino = yields[i].ino
          THEN yields[i].start = yields[i - 1].start + Len(yields[i - 1].raw)
          ELSE yields[i].start = 0

\* C22 as stated: every string follow yields is one complete line of the log:
\* the read it comes from starts at the start of a line and ends with the
\* newline of that line, whenever the writer wrote the characters of the line.
C22_YieldsAreCompleteLines ==
    \A i \in 1..Len(yields) :
        LET y == yields[i] IN
        /\ y.raw[Len(y.raw)] = "\n"
        /\ y.start = 0 \/ content[y.ino][y.start] = "\n"
        /\ y.value = strip(y.raw)

=============================================================================
